---- MODULE Spec2Model ----
(***************************************************************************)
(* The DDPG training script ddpg_car-racing.py as a state machine: the     *)
(* start-up of train(), the endless episode loop, and inside it the step   *)
(* loop with its action selection, replay-buffer insertion, guarded        *)
(* minibatch update of critic and actor, soft target updates, summary      *)
(* record and periodic checkpoint.                                         *)
(*                                                                         *)
(* Real numbers are fixed-point integers in units of 1/SCALE (rounded      *)
(* down); learning rates are in units of 1e-6.  The networks are linear    *)
(* stand-ins for the tflearn graphs: what is kept is which parameters each *)
(* operation reads and which it writes.                                    *)
(***************************************************************************)
EXTENDS Integers, Sequences, FiniteSets, TLC

\* ------------------------------------------------------------ arithmetic
\* Resolution of the fixed-point representation.
SCALE == 100

Mul(a, b) == (a * b) \div SCALE

Max2(a, b) == IF a >= b THEN a ELSE b

Min2(a, b) == IF a <= b THEN a ELSE b

Clamp(x, lo, hi) == Max2(lo, Min2(x, hi))

Sgn(x) == IF x > 0 THEN 1 ELSE IF x < 0 THEN -1 ELSE 0

RECURSIVE SumSeq(_)
SumSeq(q) == IF q = <<>> THEN 0 ELSE Head(q) + SumSeq(Tail(q))

RECURSIVE MaxSeq(_)
MaxSeq(q) == IF Len(q) = 1 THEN q[1] ELSE Max2(Head(q), MaxSeq(Tail(q)))

\* ------------------------------------------------------- hyperparameters
\* Scaled down from 500000: the loop never reads it.
MAX_EPISODES == 2
\* Scaled down from 500.
MAX_EP_STEPS == 2
\* 0.0001 and 1e-6, in units of 1e-6.
INITIAL_LR == 100
MINI_LR == 1
GAMMA == (9 * SCALE) \div 10
TAU == SCALE \div 100
EPS_DECAY_RATE == (99 * SCALE) \div 100
LR_DECAY_RATE == (99 * SCALE) \div 100
\* eps = 0.99 before the first episode.
EPS_INIT == (99 * SCALE) \div 100
\* Scaled down from 10000, 64 and 200.
BUFFER_SIZE == 3
MINIBATCH_SIZE == 2
SAVE_STEP == 2
\* env.action_space.shape[0] of CarRacing-v0: steering, acceleration, brake.
ActionDim == 3

\* ------------------------------------------------------------ the bounds
\* Episodes explored with the simulator's, the sampling's and the fetches'
\* outcomes enumerated.
MaxEpisodes == 3
\* Episodes followed under the deterministic mock environment.
MaxEpisodesDet == 103
\* Trainable variables per network (online and target have the same count).
NumActorParams == 2
NumCriticParams == 2
\* Magnitude of the rewards the simulator hands out.
MaxReward == 10
\* Times the process is killed and started again.
MaxRestarts == 2

VARIABLES
    pc,             \* the statement train() is at
    det,            \* TRUE: deterministic mock environment and sampling
    restarts,       \* process starts so far beyond the first
    actor_params,   \* ActorNetwork.network_params
    actor_target,   \* ActorNetwork.target_network_params
    critic_params,  \* CriticNetwork.network_params
    critic_target,  \* CriticNetwork.target_network_params
    global_step,    \* the tf.Variable global_step
    checkpoint,     \* the latest checkpoint under ./results, or NoCheckpoint
    saved_steps,    \* global step of every checkpoint ever written, in order
    writer,         \* the summary records written under the current episode
                    \* index, in order (earlier ones are never read again)
    buffer,         \* replay_buffer
    i, j, eps, lr, s, ep_reward, ep_ave_max_q,
    base,           \* the action chosen by the branch, before the noise
    noise,          \* the noise drawn in this step and its distribution
    action,         \* action[0] as passed to env.step
    s2, r, terminal,
    batch,          \* the sampled minibatch, a sequence of transitions
    target_q, y_i, predicted_q,
    lr_fed,         \* the learning rates fed to critic.train and actor.train
    a_outs,         \* actor.predict(s_batch)
    grads,          \* critic.action_gradients(s_batch, a_outs)[0]
    ops             \* the operations done so far in the current step

vars == << pc, det, restarts, actor_params, actor_target, critic_params,
           critic_target, global_step, checkpoint, saved_steps, writer, buffer,
           i, j, eps, lr, s, ep_reward, ep_ave_max_q, base, noise, action,
           s2, r, terminal, batch, target_q, y_i, predicted_q, lr_fed, a_outs,
           grads, ops >>

netVars == << actor_params, actor_target, critic_params, critic_target >>

diskVars == << checkpoint, saved_steps, writer >>

stepVars == << base, noise, action, s2, r, terminal >>

trainVars == << batch, target_q, y_i, predicted_q, lr_fed, a_outs, grads >>

episodeVars == << i, j, eps, lr, s, ep_reward, ep_ave_max_q >>

\* What tf.train.get_checkpoint_state finds when nothing was saved.
NoCheckpoint ==
    [global_step |-> -1, actor |-> <<>>, actor_target |-> <<>>,
     critic |-> <<>>, critic_target |-> <<>>]

ZeroAction == [c \in 1..ActionDim |-> 0]

NoNoise == [mean |-> ZeroAction, std |-> ZeroAction, value |-> ZeroAction]

\* ------------------------------------- random draws and the environment
\* np.random is seeded (np.random.seed(RANDOM_SEED)): its draws are one fixed
\* sequence, here a function of the step.  The simulator's verdict on the end
\* of an episode, the buffer's sampling and the order of the fetches in
\* critic.train are enumerated, except in the deterministic runs.

\* The initializers' values for an online network and for its target copy.
OnlineInit == {SCALE}

TargetInit == {-SCALE}

\* np.random.rand(): on the first step of an episode below eps, later above.
RandDraws(step) == {IF step = 0 THEN 0 ELSE SCALE - 1}

\* np.random.uniform(-1, 1, 3) and np.random.uniform(0, 1).
Uniform3 == {<<-SCALE, 0, SCALE>>}

Uniform01 == {SCALE \div 2}

\* Standard normal deviates, in units of 1/SCALE: one sigma above the mean
\* on the even steps, one below on the odd ones.
NormalDraws(step) == {IF step % 2 = 0 THEN SCALE ELSE -SCALE}

Obs == {SCALE}

\* The simulator pays on the track and charges for the step that ends the
\* episode.
Reward(term) == IF term THEN -MaxReward ELSE MaxReward

\* env.step: the simulator may end the episode at any step; the mock
\* environment ends the even episodes at their first step and no other.
EnvOutcomes(d, episode, step) ==
    LET ends == IF d THEN {episode % 2 = 0} ELSE BOOLEAN
    IN  {[s2 |-> o, r |-> Reward(e), terminal |-> e] : o \in Obs, e \in ends}

EpisodeCap(d) == IF d THEN MaxEpisodesDet ELSE MaxEpisodes

\* ------------------------------------------------------------- networks
InitVec(n, w) == [p \in 1..n |-> w * p]

\* create_actor_network: steering in [-1,1], acceleration and brake in [0,1].
ActorPredict(theta, obs) ==
    LET h == SumSeq([p \in 1..Len(theta) |-> Mul(theta[p], obs)])
    IN  << Clamp(h, -SCALE, SCALE), Clamp(h, 0, SCALE), Clamp(h, 0, SCALE) >>

\* The input each critic parameter weighs: the first the observation, the
\* others the action.
CriticFeature(p, obs, a) == IF p = 1 THEN obs ELSE SumSeq(a)

\* create_critic_network: Q(s, a).
CriticPredict(w, obs, a) ==
    SumSeq([p \in 1..Len(w) |-> Mul(w[p], CriticFeature(p, obs, a))])

\* tf.gradients(self.out, self.action): one row of d Q / d action.
ActionGradients(w, obs, a) ==
    LET g == SumSeq([p \in 1..Len(w) |-> IF p = 1 THEN 0 ELSE w[p]])
    IN  [c \in 1..ActionDim |-> g]

\* One Adam step on a parameter with gradient g: against the gradient's sign.
AdamStep(g) == -Sgn(g)

\* Gradient of the mean-square loss with respect to critic parameter p.
CriticLossGrad(w, b, y, p) ==
    SumSeq([k \in 1..Len(b) |->
        (CriticPredict(w, b[k].s, b[k].a) - y[k]) * CriticFeature(p, b[k].s, b[k].a)])

\* tf.gradients(scaled_out, network_params, -action_gradient) for parameter p.
ActorGrad(theta, b, g, p) ==
    SumSeq([k \in 1..Len(b) |-> -(SumSeq(g[k]) * b[k].s)])

\* The variables the critic's loss depends on, which minimize() updates.
CriticTrainedVars == {"critic"}

\* The variables apply_gradients() is given: self.network_params.
ActorTrainedVarsAll == {"actor", "actor_target"}
ActorTrainedVars == {"actor"}

\* target <- tau * online + (1 - tau) * target, per parameter.
SoftUpdateSwapped(online, target, tau) ==
    [p \in 1..Len(target) |-> Mul(SCALE - tau, online[p]) + Mul(tau, target[p])]
SoftUpdate(online, target, tau) ==
    [p \in 1..Len(target) |-> Mul(tau, online[p]) + Mul(SCALE - tau, target[p])]

\* --------------------------------------------------------- replay buffer
\* ReplayBuffer.add: append, evicting the oldest entry once at capacity.
BufferAdd(buf, tr) ==
    IF Len(buf) < BUFFER_SIZE THEN Append(buf, tr) ELSE Append(Tail(buf), tr)

\* ReplayBuffer.size.
BufferSize(buf) == Len(buf)

\* ReplayBuffer.sample_batch: n distinct entries in a random order (all of
\* them when the buffer holds fewer than n).
SampleIndices(d, size, n) ==
    LET m == Min2(size, n)
    IN  IF d THEN {[k \in 1..m |-> size + 1 - k]}
        ELSE {q \in [1..m -> 1..size] :
                 \A a, b \in 1..m : a # b => q[a] # q[b]}

\* --------------------------------------------------------- train(): rules
\* while True:
LoopConditionBounded(idx) == idx < MAX_EPISODES
LoopCondition(idx) == TRUE

\* i = global_step.eval()
StartIndexZero(gs) == 0
StartIndex(gs) == gs

\* eps *= EPS_DECAY_RATE
DecayEps(e) == Mul(e, EPS_DECAY_RATE)

\* lr *= LR_DECAY_RATE; lr = np.max([lr, MINI_LR])
DecayLrNoFloor(l) == Mul(l, LR_DECAY_RATE)
DecayLr(l) == Max2(Mul(l, LR_DECAY_RATE), MINI_LR)

\* if i % SAVE_STEP == 0
IsSaveEpisode(idx) == idx % SAVE_STEP = 0

\* np.random.uniform(-1, 1, 3); action[1] = action[1] + np.random.uniform(0, 1)
RandomAction(u, v) == [u EXCEPT ![2] = u[2] + v]

\* noise = np.random.normal(0, 0.2*eps, 3); noise[1] = np.random.normal(0.4, 0.1*eps)
NoiseMean == << 0, (4 * SCALE) \div 10, 0 >>

NoiseStd(e) == << Mul(SCALE \div 5, e), Mul(SCALE \div 10, e), Mul(SCALE \div 5, e) >>

Normal(mean, std, z) == mean + Mul(std, z)

DrawNoise(e, z) ==
    [mean |-> NoiseMean, std |-> NoiseStd(e),
     value |-> [c \in 1..ActionDim |-> Normal(NoiseMean[c], NoiseStd(e)[c], z)]]

\* action[0] = action[0] + noise, after either branch.
ExploreActionActorOnly(random, b, n) ==
    IF random THEN b ELSE [c \in 1..ActionDim |-> b[c] + n[c]]
ExploreAction(random, b, n) == [c \in 1..ActionDim |-> b[c] + n[c]]

\* if replay_buffer.size() > MINIBATCH_SIZE
ShouldTrainAtLeast(size) == size >= MINIBATCH_SIZE
ShouldTrain(size) == size > MINIBATCH_SIZE

\* y_i: r_batch[k] if t_batch[k], else r_batch[k] + GAMMA * target_q[k]
BootstrapTargetAlways(rew, term, q) == rew + Mul(GAMMA, q)
BootstrapTarget(rew, term, q) == IF term THEN rew ELSE rew + Mul(GAMMA, q)

\* for j in range(MAX_EP_STEPS): ... if terminal: break
EpisodeOver(term, step) == term \/ step + 1 >= MAX_EP_STEPS

\* The statements of a training step, in program order.
TrainOrderActorFirst ==
    << "sample", "targets", "actor_train", "critic_train", "actor_sync",
       "critic_sync", "summary" >>
TrainOrder ==
    << "sample", "targets", "critic_train", "actor_train", "actor_sync",
       "critic_sync", "summary" >>

\* The statement after stmt in a training step; after the last, the step's end.
After(stmt) ==
    LET k == CHOOSE n \in 1..Len(TrainOrder) : TrainOrder[n] = stmt
    IN  IF k = Len(TrainOrder) THEN "advance" ELSE TrainOrder[k + 1]

\* ---------------------------------------------------------------- Init
\* main() has built the graph; no variable holds a value yet.
InitWith(d) ==
    /\ pc = "start"
    /\ det = d
    /\ restarts = 0
    /\ actor_params = InitVec(NumActorParams, 0)
    /\ actor_target = InitVec(NumActorParams, 0)
    /\ critic_params = InitVec(NumCriticParams, 0)
    /\ critic_target = InitVec(NumCriticParams, 0)
    /\ global_step = 0
    /\ checkpoint = NoCheckpoint
    /\ saved_steps = <<>>
    /\ writer = <<>>
    /\ buffer = <<>>
    /\ i = 0 /\ j = 0 /\ eps = 0 /\ lr = 0 /\ s = 0
    /\ ep_reward = 0 /\ ep_ave_max_q = 0
    /\ base = ZeroAction
    /\ noise = NoNoise
    /\ action = ZeroAction
    /\ s2 = 0 /\ r = 0 /\ terminal = FALSE
    /\ batch = <<>> /\ target_q = <<>> /\ y_i = <<>> /\ predicted_q = <<>>
    /\ lr_fed = <<>> /\ a_outs = <<>> /\ grads = <<>>
    /\ ops = <<>>

Init == InitWith(FALSE)

InitDet == InitWith(TRUE)

\* ------------------------------------------------------ train(): start-up
\* sess.run(tf.global_variables_initializer()), then saver.restore() when a
\* checkpoint exists.
Start ==
    /\ pc = "start"
    /\ \E wo \in OnlineInit, wt \in TargetInit :
         LET fresh == [global_step |-> 0,
                       actor |-> InitVec(NumActorParams, wo),
                       actor_target |-> InitVec(NumActorParams, wt),
                       critic |-> InitVec(NumCriticParams, wo),
                       critic_target |-> InitVec(NumCriticParams, wt)]
             vals == IF checkpoint # NoCheckpoint THEN checkpoint ELSE fresh
         IN  /\ actor_params' = vals.actor
             /\ actor_target' = vals.actor_target
             /\ critic_params' = vals.critic
             /\ critic_target' = vals.critic_target
             /\ global_step' = vals.global_step
    /\ pc' = "init_actor_target"
    /\ UNCHANGED << det, restarts, diskVars, buffer, episodeVars, stepVars,
                    trainVars, ops >>

\* actor.update_target_network(), at start-up and in every training step.
ActorUpdateTarget ==
    /\ pc \in {"init_actor_target", "actor_sync"}
    /\ actor_target' = SoftUpdate(actor_params, actor_target, TAU)
    /\ pc' = IF pc = "init_actor_target" THEN "init_critic_target" ELSE After(pc)
    /\ ops' = IF pc = "init_actor_target" THEN ops ELSE Append(ops, pc)
    /\ UNCHANGED << det, restarts, actor_params, critic_params, critic_target,
                    global_step, diskVars, buffer, episodeVars, stepVars,
                    trainVars >>

\* critic.update_target_network(), at start-up and in every training step.
CriticUpdateTarget ==
    /\ pc \in {"init_critic_target", "critic_sync"}
    /\ critic_target' = SoftUpdate(critic_params, critic_target, TAU)
    /\ pc' = IF pc = "init_critic_target" THEN "init_loop" ELSE After(pc)
    /\ ops' = IF pc = "init_critic_target" THEN ops ELSE Append(ops, pc)
    /\ UNCHANGED << det, restarts, actor_params, actor_target, critic_params,
                    global_step, diskVars, buffer, episodeVars, stepVars,
                    trainVars >>

\* replay_buffer = ReplayBuffer(...); i = global_step.eval(); eps = 0.99;
\* lr = INITIAL_LR
InitLoop ==
    /\ pc = "init_loop"
    /\ buffer' = <<>>
    /\ i' = StartIndex(global_step)
    /\ eps' = EPS_INIT
    /\ lr' = INITIAL_LR
    /\ pc' = "episode"
    /\ UNCHANGED << det, restarts, netVars, global_step, diskVars, j, s,
                    ep_reward, ep_ave_max_q, stepVars, trainVars, ops >>

\* ------------------------------------------------- train(): episode loop
\* The head of the while loop up to the for loop: next index, env.reset(),
\* the decays, and the checkpoint on every SAVE_STEP-th index.
Episode ==
    /\ pc = "episode"
    /\ i < EpisodeCap(det)
    /\ IF ~LoopCondition(i)
       THEN /\ pc' = "done"
            /\ UNCHANGED << netVars, global_step, diskVars, episodeVars >>
       ELSE /\ i' = i + 1
            /\ s' \in Obs
            /\ ep_reward' = 0
            /\ ep_ave_max_q' = 0
            /\ eps' = DecayEps(eps)
            /\ lr' = DecayLr(lr)
            /\ IF IsSaveEpisode(i + 1)
               THEN /\ global_step' = i + 1
                    /\ checkpoint' = [global_step |-> i + 1,
                                      actor |-> actor_params,
                                      actor_target |-> actor_target,
                                      critic |-> critic_params,
                                      critic_target |-> critic_target]
                    /\ saved_steps' = Append(saved_steps, i + 1)
               ELSE UNCHANGED << global_step, checkpoint, saved_steps >>
            /\ writer' = <<>>
            /\ j' = 0
            /\ pc' = "select"
            /\ UNCHANGED netVars
    /\ UNCHANGED << det, restarts, buffer, stepVars, trainVars, ops >>

\* The eps-greedy branch and the exploration noise.
Select ==
    /\ pc = "select"
    /\ \E rnd \in RandDraws(j), u \in Uniform3, v \in Uniform01,
          z \in NormalDraws(j) :
         LET random == rnd <= eps
             b == IF random THEN RandomAction(u, v) ELSE ActorPredict(actor_params, s)
             n == DrawNoise(eps, z)
         IN  /\ base' = b
             /\ noise' = n
             /\ action' = ExploreAction(random, b, n.value)
    /\ ops' = << "select" >>
    /\ pc' = "env_step"
    /\ UNCHANGED << det, restarts, netVars, global_step, diskVars, buffer,
                    episodeVars, s2, r, terminal, trainVars >>

\* s2, r, terminal, info = env.step(action[0])
EnvStep ==
    /\ pc = "env_step"
    /\ \E out \in EnvOutcomes(det, i, j) :
         /\ s2' = out.s2
         /\ r' = out.r
         /\ terminal' = out.terminal
    /\ ops' = Append(ops, "env_step")
    /\ pc' = "store"
    /\ UNCHANGED << det, restarts, netVars, global_step, diskVars, buffer,
                    episodeVars, base, noise, action, trainVars >>

\* replay_buffer.add(s, action, r, terminal, s2, lr) and the guard on the size.
Store ==
    /\ pc = "store"
    /\ buffer' = BufferAdd(buffer, [s |-> s, a |-> action, r |-> r,
                                    t |-> terminal, s2 |-> s2, lr |-> lr])
    /\ ops' = Append(ops, "store")
    /\ pc' = IF ShouldTrain(BufferSize(buffer')) THEN TrainOrder[1] ELSE "advance"
    /\ UNCHANGED << det, restarts, netVars, global_step, diskVars, episodeVars,
                    stepVars, trainVars >>

\* replay_buffer.sample_batch(MINIBATCH_SIZE)
Sample ==
    /\ pc = "sample"
    /\ \E idx \in SampleIndices(det, BufferSize(buffer), MINIBATCH_SIZE) :
         batch' = [k \in 1..Len(idx) |-> buffer[idx[k]]]
    /\ ops' = Append(ops, pc)
    /\ pc' = After(pc)
    /\ UNCHANGED << det, restarts, netVars, global_step, diskVars, buffer,
                    episodeVars, stepVars, target_q, y_i, predicted_q, lr_fed,
                    a_outs, grads >>

\* target_q from the target critic on the target actor's action, then y_i.
Targets ==
    /\ pc = "targets"
    /\ LET tq == [k \in 1..Len(batch) |->
                    CriticPredict(critic_target, batch[k].s2,
                                  ActorPredict(actor_target, batch[k].s2))]
       IN  /\ target_q' = tq
           /\ y_i' = [k \in 1..MINIBATCH_SIZE |->
                        BootstrapTarget(batch[k].r, batch[k].t, tq[k])]
    /\ ops' = Append(ops, pc)
    /\ pc' = After(pc)
    /\ UNCHANGED << det, restarts, netVars, global_step, diskVars, buffer,
                    episodeVars, stepVars, batch, predicted_q, lr_fed, a_outs,
                    grads >>

\* The critic parameters the fetch of self.out may read in critic.train.
FetchedCritic(d, before, after) == IF d THEN {before} ELSE {before, after}

\* A network's parameters after one optimizer step with the given gradients.
Optimized(name, trained, params, grad) ==
    IF name \in trained
    THEN [p \in 1..Len(params) |-> params[p] + AdamStep(grad[p])]
    ELSE params

\* critic.train(s_batch, a_batch, y_i, lr_batch); ep_ave_max_q += amax(...)
\* sess.run fetches self.out and self.optimize together, in no fixed order:
\* the returned Q values are those of the critic before or after its update.
CriticTrain ==
    /\ pc = "critic_train"
    /\ LET g == [p \in 1..NumCriticParams |->
                   CriticLossGrad(critic_params, batch, y_i, p)]
           gt == [p \in 1..NumCriticParams |->
                    CriticLossGrad(critic_target, batch, y_i, p)]
           updated == Optimized("critic", CriticTrainedVars, critic_params, g)
       IN  /\ critic_params' = updated
           /\ critic_target' = Optimized("critic_target", CriticTrainedVars, critic_target, gt)
           /\ \E w \in FetchedCritic(det, critic_params, updated) :
                 LET pq == [k \in 1..Len(batch) |->
                              CriticPredict(w, batch[k].s, batch[k].a)]
                 IN  /\ predicted_q' = pq
                     /\ ep_ave_max_q' = ep_ave_max_q + MaxSeq(pq)
    /\ lr_fed' = << batch[1].lr >>
    /\ ops' = Append(ops, pc)
    /\ pc' = After(pc)
    /\ UNCHANGED << det, restarts, actor_params, actor_target, global_step,
                    diskVars, buffer, i, j, eps, lr, s, ep_reward, stepVars,
                    batch, target_q, y_i, a_outs, grads >>

\* a_outs = actor.predict(s_batch); grads = critic.action_gradients(...);
\* actor.train(s_batch, grads[0], lr_batch)
ActorTrain ==
    /\ pc = "actor_train"
    /\ LET ao == [k \in 1..Len(batch) |-> ActorPredict(actor_params, batch[k].s)]
           gr == [k \in 1..Len(batch) |->
                    ActionGradients(critic_params, batch[k].s, ao[k])]
           g == [p \in 1..NumActorParams |-> ActorGrad(actor_params, batch, gr, p)]
           gt == [p \in 1..NumActorParams |-> ActorGrad(actor_target, batch, gr, p)]
       IN  /\ a_outs' = ao
           /\ grads' = gr
           /\ actor_params' = Optimized("actor", ActorTrainedVars, actor_params, g)
           /\ actor_target' = Optimized("actor_target", ActorTrainedVars, actor_target, gt)
    /\ lr_fed' = Append(lr_fed, batch[1].lr)
    /\ ops' = Append(ops, pc)
    /\ pc' = After(pc)
    /\ UNCHANGED << det, restarts, critic_params, critic_target, global_step,
                    diskVars, buffer, episodeVars, stepVars, batch, target_q,
                    y_i, predicted_q >>

\* The summary record of a training step: reward so far, and the sum of the
\* max Q values to be divided by float(j); tagged with the episode index.
Summary ==
    /\ pc = "summary"
    /\ writer' = Append(writer, [tag |-> i, reward |-> ep_reward,
                                 qsum |-> ep_ave_max_q, divisor |-> j])
    /\ ops' = Append(ops, pc)
    /\ pc' = After(pc)
    /\ UNCHANGED << det, restarts, netVars, global_step, checkpoint,
                    saved_steps, buffer, episodeVars, stepVars, trainVars >>

\* s = s2; ep_reward += r; break on terminal; the for loop's next j.  The
\* step's other locals are rebound before they are read again: they are dead
\* here and take their initial values.
Advance ==
    /\ pc = "advance"
    /\ s' = s2
    /\ ep_reward' = ep_reward + r
    /\ IF EpisodeOver(terminal, j)
       THEN pc' = "episode" /\ j' = j
       ELSE pc' = "select" /\ j' = j + 1
    /\ base' = ZeroAction
    /\ noise' = NoNoise
    /\ action' = ZeroAction
    /\ batch' = <<>> /\ target_q' = <<>> /\ y_i' = <<>> /\ predicted_q' = <<>>
    /\ lr_fed' = <<>> /\ a_outs' = <<>> /\ grads' = <<>>
    /\ ops' = <<>>
    /\ UNCHANGED << det, restarts, netVars, global_step, diskVars, buffer,
                    i, eps, lr, ep_ave_max_q, s2, r, terminal >>

\* The process is stopped from outside and started again: only the files
\* under ./results and the summary log survive.
Restart ==
    /\ pc # "start"
    /\ restarts < MaxRestarts
    /\ restarts' = restarts + 1
    /\ pc' = "start"
    /\ actor_params' = InitVec(NumActorParams, 0)
    /\ actor_target' = InitVec(NumActorParams, 0)
    /\ critic_params' = InitVec(NumCriticParams, 0)
    /\ critic_target' = InitVec(NumCriticParams, 0)
    /\ global_step' = 0
    /\ buffer' = <<>>
    /\ i' = 0 /\ j' = 0 /\ eps' = 0 /\ lr' = 0 /\ s' = 0
    /\ ep_reward' = 0 /\ ep_ave_max_q' = 0
    /\ base' = ZeroAction
    /\ noise' = NoNoise
    /\ action' = ZeroAction
    /\ s2' = 0 /\ r' = 0 /\ terminal' = FALSE
    /\ batch' = <<>> /\ target_q' = <<>> /\ y_i' = <<>> /\ predicted_q' = <<>>
    /\ lr_fed' = <<>> /\ a_outs' = <<>> /\ grads' = <<>>
    /\ ops' = <<>>
    /\ UNCHANGED << det, diskVars >>

Next ==
    \/ Start
    \/ ActorUpdateTarget
    \/ CriticUpdateTarget
    \/ InitLoop
    \/ Episode
    \/ Select
    \/ EnvStep
    \/ Store
    \/ Sample
    \/ Targets
    \/ CriticTrain
    \/ ActorTrain
    \/ Summary
    \/ Advance

\* train() against the simulator.
Spec == Init /\ [][Next]_vars

\* train() against the deterministic mock environment, for many episodes.
SpecDet == InitDet /\ [][Next]_vars

\* The same, with the process stopped and started again at any moment.
SpecRestart == InitDet /\ [][Next \/ Restart]_vars

\* ============================================================ properties
\* op has been done in the current step.
Done(op) == \E k \in 1..Len(ops) : ops[k] = op

\* train() is past its start-up, inside the while loop.
InLoop == pc \notin {"start", "init_actor_target", "init_critic_target", "init_loop"}

C2_BootstrapTarget ==
    Done("targets") =>
      \A k \in 1..MINIBATCH_SIZE :
        /\ batch[k].t => y_i[k] = batch[k].r
        /\ ~batch[k].t => y_i[k] = batch[k].r + (GAMMA * target_q[k]) \div SCALE
        /\ ~Done("actor_sync") =>
              target_q[k] = CriticPredict(critic_target, batch[k].s2,
                                          ActorPredict(actor_target, batch[k].s2))

\* C2's case: a batch with a terminal and a non-terminal transition, where the
\* discounted target value of the terminal one is not zero.
C2_Witness ==
    /\ Done("targets")
    /\ \E k, n \in 1..MINIBATCH_SIZE :
         /\ batch[k].t /\ (GAMMA * target_q[k]) \div SCALE # 0
         /\ ~batch[n].t /\ y_i[n] # batch[n].r

\* C3: one update_target_network() call leaves each target parameter at
\* tau * online + (1 - tau) * its previous value and the online parameters
\* as they were, at start-up and in the training steps alike.
C3_SoftUpdateRule ==
    [][ /\ pc \in {"init_actor_target", "actor_sync"} =>
             /\ actor_target' = [p \in 1..NumActorParams |->
                    (TAU * actor_params[p]) \div SCALE
                    + ((SCALE - TAU) * actor_target[p]) \div SCALE]
             /\ actor_params' = actor_params
        /\ pc \in {"init_critic_target", "critic_sync"} =>
             /\ critic_target' = [p \in 1..NumCriticParams |->
                    (TAU * critic_params[p]) \div SCALE
                    + ((SCALE - TAU) * critic_target[p]) \div SCALE]
             /\ critic_params' = critic_params ]_vars

\* C3's case: both soft updates of a training step are done, on targets that
\* differ from the online parameters.
C3_Witness ==
    /\ Done("actor_sync") /\ Done("critic_sync")
    /\ actor_target # actor_params /\ critic_target # critic_params

\* C4: inside the loop lr is never below MINI_LR nor above INITIAL_LR, and so
\* is every learning rate stored in the replay buffer or fed to critic.train
\* and actor.train.
C4_LearningRateFloor ==
    InLoop =>
      /\ MINI_LR <= lr /\ lr <= INITIAL_LR
      /\ \A n \in 1..Len(buffer) :
            MINI_LR <= buffer[n].lr /\ buffer[n].lr <= INITIAL_LR
      /\ \A n \in 1..Len(lr_fed) : MINI_LR <= lr_fed[n] /\ lr_fed[n] <= INITIAL_LR

\* C4's case: lr has sat on the floor for so long that every stored
\* transition carries MINI_LR and both networks were trained with it.
C4_Witness ==
    /\ lr = MINI_LR /\ (lr * LR_DECAY_RATE) \div SCALE < MINI_LR
    /\ Len(buffer) = BUFFER_SIZE /\ \A n \in 1..Len(buffer) : buffer[n].lr = MINI_LR
    /\ lr_fed = << MINI_LR, MINI_LR >>

C6_TargetsOnlySoftUpdated ==
    [][ /\ actor_target' # actor_target =>
             pc \in {"start", "init_actor_target", "actor_sync"}
        /\ critic_target' # critic_target =>
             pc \in {"start", "init_critic_target", "critic_sync"}
        /\ pc = "critic_train" =>
             UNCHANGED << actor_params, actor_target, critic_target >>
        /\ pc = "actor_train" =>
             UNCHANGED << critic_params, critic_target, actor_target >> ]_vars

\* C6's case: both optimizers have moved their online parameters away from
\* the initial values.
C6_Witness ==
    /\ Done("actor_train")
    /\ \A w \in OnlineInit :
         /\ actor_params # InitVec(NumActorParams, w)
         /\ critic_params # InitVec(NumCriticParams, w)

\* C7: the summary sink holds no more than one record under an episode's
\* index; the record carries the episode's cumulative reward and the sum of
\* max Q divided by the number of steps taken in the episode, never by zero.
C7_OneRecordPerEpisode ==
    /\ \A k \in 1..Len(writer) : writer[k].tag = i /\ writer[k].divisor # 0
    /\ Len(writer) <= 1
    /\ (pc = "episode" /\ i >= 1 /\ Len(writer) = 1) =>
          /\ writer[1].reward = ep_reward
          /\ writer[1].divisor = j + 1

\* C8 as stated: the noise added to each of the three components has mean
\* zero and a standard deviation proportional to eps.
C8_ZeroMeanNoise ==
    Done("select") =>
      /\ \A c \in 1..ActionDim : noise.mean[c] = 0
      /\ action = [c \in 1..ActionDim |-> base[c] + noise.value[c]]

\* C8, amended: after either branch Gaussian noise is added to each of the
\* three components before env.step, with standard deviation 0.2 * eps for
\* steering and brake and 0.1 * eps for acceleration, and mean zero for
\* steering and brake but 0.4 for acceleration; eps is multiplied by
\* EPS_DECAY_RATE once at the head of each episode and changes nowhere else
\* in the loop.
C8_NoiseOnEveryStep ==
    [][ /\ pc = "select" =>
             /\ noise'.mean = << 0, (4 * SCALE) \div 10, 0 >>
             /\ noise'.std = << ((SCALE \div 5) * eps) \div SCALE,
                                ((SCALE \div 10) * eps) \div SCALE,
                                ((SCALE \div 5) * eps) \div SCALE >>
             /\ \E z \in {-SCALE, SCALE} :
                  noise'.value = [c \in 1..ActionDim |->
                      noise'.mean[c] + (noise'.std[c] * z) \div SCALE]
             /\ action' = [c \in 1..ActionDim |-> base'[c] + noise'.value[c]]
        /\ pc = "env_step" => action' = action
        /\ pc = "episode" =>
             eps' = (eps * EPS_DECAY_RATE) \div SCALE /\ eps' <= eps
        /\ (InLoop /\ pc # "episode") => eps' = eps ]_vars

\* C8's case: the actor's prediction was the base action, noise was added to
\* it, and eps has decayed more than once.
C8_Witness ==
    /\ pc = "env_step"
    /\ base = ActorPredict(actor_params, s)
    /\ \A c \in 1..ActionDim : action[c] # base[c]
    /\ eps < (EPS_INIT * EPS_DECAY_RATE) \div SCALE

\* C9: the operations of a step are done in this order, each at most once:
\* action selection, env.step, buffer insertion, then in a training step the
\* sampling, the targets, the critic update, the actor update with the action
\* gradient of the updated critic, the actor's and the critic's soft update.
C9_StepOrder ==
    LET order == << "select", "env_step", "store", "sample", "targets",
                    "critic_train", "actor_train", "actor_sync", "critic_sync",
                    "summary" >>
    IN  /\ Len(ops) <= Len(order)
        /\ \A k \in 1..Len(ops) : ops[k] = order[k]
        /\ pc = "advance" => Len(ops) \in {3, Len(order)}
        /\ Done("actor_train") =>
              \A k \in 1..Len(batch) :
                 grads[k] = ActionGradients(critic_params, batch[k].s, a_outs[k])

\* C9's case: a whole training step has been done.
C9_Witness ==
    pc = "advance" /\ Done("summary") /\ Done("critic_sync")

====
